---- MODULE Spec2Model ----
(***************************************************************************)
(* FIFA World Cup winners dashboard (wc_winner.py).                        *)
(*                                                                         *)
(* The module-level code builds the tournament table, the country-code     *)
(* mapping and the win-count aggregate once, at import; afterwards the     *)
(* only thing that runs is the Dash callback update_dashboard, fired once  *)
(* at page load and then on every change of one of the two dropdowns.      *)
(*                                                                         *)
(* Python values are modelled as follows.                                  *)
(*   DataFrame        a sequence of rows, each row a record of its columns *)
(*                    (the column 'Runner-up' is the field Runner_up)      *)
(*   dict             a function from its keys                             *)
(*   None / a value   the sequences <<>> and <<v>>                         *)
(*   NaN              the string NaN (no country code is spelled so)       *)
(*   str              a string; html.X(s) is [type |-> "X", children |-> s]*)
(*                    and a bare str output is [type |-> "str", ...]       *)
(*   go.Figure        [data |-> sequence of traces, layout |-> record]     *)
(***************************************************************************)
EXTENDS Integers, Sequences, FiniteSets, TLC

VARIABLES
    pc,                 \* position in the module-level code / "serving"
    data,               \* the dict literal of create_worldcup_dataset
    country_codes,      \* the country -> ISO code dict
    worldcup_df,        \* the tournament table
    win_counts,         \* the aggregate: Country, Wins, Code
    selected_country,   \* value of country-dropdown
    selected_year,      \* value of year-dropdown
    fig,                \* Output('choropleth-map', 'figure')
    country_output,     \* Output('country-info', 'children')
    year_output,        \* Output('year-info', 'children')
    lastEvent           \* which input triggered the last callback

vars == <<pc, data, country_codes, worldcup_df, win_counts, selected_country,
          selected_year, fig, country_output, year_output, lastEvent>>

-----------------------------------------------------------------------------
(* Python values *)

None == <<>>
Some(v) == <<v>>
NaN == "NaN"

\* Python truthiness of an optional str / int: None, "" and 0 are falsy.
TruthyStr(o) == o # None /\ o[1] # ""
TruthyInt(o) == o # None /\ o[1] # 0

Str(s) == [type |-> "str", children |-> s]
H3(s) == [type |-> "H3", children |-> s]
P(s) == [type |-> "P", children |-> s]
Div(cs) == [type |-> "Div", children |-> cs]

-----------------------------------------------------------------------------
(* The data literal of create_worldcup_dataset, column by column.          *)

DataYear ==
    <<1930, 1934, 1938, 1950, 1954, 1958, 1962, 1966, 1970, 1974,
      1978, 1982, 1986, 1990, 1994, 1998, 2002, 2006, 2010, 2014, 2018, 2022>>

DataWinner ==
    <<"Uruguay", "Italy", "Italy", "Uruguay", "West Germany", "Brazil",
      "Brazil", "England", "Brazil", "West Germany", "Argentina",
      "Italy", "Argentina", "West Germany", "Brazil", "France",
      "Brazil", "Italy", "Spain", "Germany", "France", "Argentina">>

DataRunnerUp ==
    <<"Argentina", "Czechoslovakia", "Hungary", "Brazil", "Hungary",
      "Sweden", "Czechoslovakia", "West Germany", "Italy",
      "Netherlands", "Netherlands", "West Germany", "West Germany",
      "Argentina", "Italy", "Brazil", "Germany", "France",
      "Netherlands", "Argentina", "Croatia", "France">>

DataScore ==
    <<"4-2", "2-1 (a.e.t.)", "4-2", "2-1", "3-2", "5-2", "3-1", "4-2 (a.e.t.)",
      "4-1", "2-1", "3-1 (a.e.t.)", "3-1", "3-2", "1-0", "0-0 (a.e.t.) (3-2 p.)",
      "3-0", "2-0", "1-1 (a.e.t.) (5-3 p.)", "1-0 (a.e.t.)", "1-0 (a.e.t.)",
      "4-2", "3-3 (a.e.t.) (4-2 p.)">>

ShippedData ==
    [i \in 1..Len(DataYear) |->
        [Year |-> DataYear[i], Winner |-> DataWinner[i],
         Runner_up |-> DataRunnerUp[i], Score |-> DataScore[i]]]

ShippedCodes ==
    [c \in {"Argentina", "Brazil", "England", "France", "Germany", "Italy",
            "Spain", "Uruguay", "Czechoslovakia", "Hungary", "Sweden",
            "Netherlands", "Croatia"} |->
        CASE c = "Argentina" -> "ARG"
          [] c = "Brazil" -> "BRA"
          [] c = "England" -> "GBR"
          [] c = "France" -> "FRA"
          [] c = "Germany" -> "DEU"
          [] c = "Italy" -> "ITA"
          [] c = "Spain" -> "ESP"
          [] c = "Uruguay" -> "URY"
          [] c = "Czechoslovakia" -> "CZE"
          [] c = "Hungary" -> "HUN"
          [] c = "Sweden" -> "SWE"
          [] c = "Netherlands" -> "NLD"
          [] c = "Croatia" -> "HRV"]

-----------------------------------------------------------------------------
(* Bounded families of inputs.  Besides the shipped table the model runs   *)
(* the same code over every short table made of rows of the shipped one,   *)
(* in any insertion order, and over the mapping with one entry removed.    *)

MaxRows == 3

\* 1954, 1966, 1990, 2014: three German wins (two entered as West Germany),
\* West Germany as runner-up, and another winner.
PoolRows == {ShippedData[i] : i \in {5, 8, 14, 20}}

RemovableCountries == {"Germany", "England"}

RECURSIVE Arrangements(_, _)
Arrangements(S, n) ==
    IF n = 0 THEN {<<>>}
    ELSE {<<>>} \cup
         UNION {{<<x>> \o t : t \in Arrangements(S \ {x}, n - 1)} : x \in S}

SmallDatasets == Arrangements(PoolRows, MaxRows) \ {<<>>}


\* A table with a malformed entry: a further row that repeats the year of
\* an earlier one.
DuplicateYearDatasets ==
    UNION {{Append(d, [r EXCEPT !.Year = d[i].Year]) : i \in DOMAIN d, r \in PoolRows} :
           d \in SmallDatasets}

CodeMaps ==
    {ShippedCodes} \cup
    {[c \in DOMAIN ShippedCodes \ {k} |-> ShippedCodes[c]] : k \in RemovableCountries}

\* The program as shipped, and every short table under every mapping.
Inputs == ({ShippedData} \X {ShippedCodes}) \cup (SmallDatasets \X CodeMaps)

InputsDuplicateYear == DuplicateYearDatasets \X {ShippedCodes}

\* Values the update endpoint can be sent that no dropdown option carries.
OutOfDomainCountries == {"Croatia", "West Germany", ""}
OutOfDomainYears == {1942, 0}

-----------------------------------------------------------------------------
(* Module-level code: the table, the code columns, the aggregate.          *)

\* df.replace({'West Germany': 'Germany'}) on one cell.  replace() visits
\* every column; the int64 column Year holds no str and is left as it is.
ReplaceCell(v) == IF v = "West Germany" THEN "Germany" ELSE v

create_worldcup_dataset_WinnerOnly(d) ==
    [i \in DOMAIN d |-> [d[i] EXCEPT !.Winner = ReplaceCell(d[i].Winner)]]

create_worldcup_dataset(d) ==
    [i \in DOMAIN d |->
        [Year |-> d[i].Year,
         Winner |-> ReplaceCell(d[i].Winner),
         Runner_up |-> ReplaceCell(d[i].Runner_up),
         Score |-> ReplaceCell(d[i].Score)]]

\* Series.map(dict): a key the dict lacks maps to NaN.
MapCode(codes, name) == IF name \in DOMAIN codes THEN codes[name] ELSE NaN

AddCodeColumns(df, codes) ==
    [i \in DOMAIN df |->
        [Year |-> df[i].Year, Winner |-> df[i].Winner,
         Runner_up |-> df[i].Runner_up, Score |-> df[i].Score,
         Winner_Code |-> MapCode(codes, df[i].Winner),
         Runner_up_Code |-> MapCode(codes, df[i].Runner_up)]]

Unique(df, col) == {df[i][col] : i \in DOMAIN df}

\* Counts the finals a country played in, not the ones it won.
CountOf_Finalist(df, col, v) ==
    Cardinality({i \in DOMAIN df : df[i][col] = v \/ df[i].Runner_up = v})

CountOf(df, col, v) == Cardinality({i \in DOMAIN df : df[i][col] = v})

\* Series.value_counts().reset_index() with the columns renamed: one row
\* per distinct value, most frequent first.  pandas does not fix the order
\* of values with equal counts, so every such order is a possible result.
RECURSIVE value_counts(_, _, _)
value_counts(df, col, S) ==
    IF S = {} THEN {<<>>}
    ELSE LET top == {c \in S : \A d \in S : CountOf(df, col, c) >= CountOf(df, col, d)}
         IN UNION {{<<[Country |-> c, Wins |-> CountOf(df, col, c)]>> \o t :
                        t \in value_counts(df, col, S \ {c})} : c \in top}

AddCode(wc, codes) ==
    [i \in DOMAIN wc |->
        [Country |-> wc[i].Country, Wins |-> wc[i].Wins,
         Code |-> MapCode(codes, wc[i].Country)]]

\* The dropdown options of app.layout (as sets: the order of the options
\* plays no part in the callback).
CountryOptions == Unique(worldcup_df, "Winner")
YearOptions == Unique(worldcup_df, "Year")

-----------------------------------------------------------------------------
(* update_dashboard and its pieces.                                        *)

Column(df, col) == [i \in DOMAIN df |-> df[i][col]]

\* df[df[col] == v]
Where(df, col, v) == SelectSeq(df, LAMBDA r : r[col] = v)

\* sorted() on a list of ints.
RECURSIVE InsertSorted(_, _)
InsertSorted(x, s) ==
    IF s = <<>> THEN <<x>>
    ELSE IF x <= Head(s) THEN <<x>> \o s
    ELSE <<Head(s)>> \o InsertSorted(x, Tail(s))

RECURSIVE InsertionSort(_)
InsertionSort(s) ==
    IF s = <<>> THEN <<>> ELSE InsertSorted(Head(s), InsertionSort(Tail(s)))

sorted_Unsorted(s) == s

sorted(s) == InsertionSort(s)

\* ", ".join(map(str, xs))
RECURSIVE JoinInts(_)
JoinInts(xs) ==
    IF xs = <<>> THEN ""
    ELSE IF Len(xs) = 1 THEN ToString(xs[1])
    ELSE ToString(xs[1]) \o ", " \o JoinInts(Tail(xs))

\* px.choropleth(win_counts, locations="Code", color="Wins", ...) followed
\* by update_geos and update_layout: one trace over every row of win_counts,
\* coloured through the layout's colour axis.
px_choropleth_Reused(wc) ==
    IF fig.data # <<>> THEN fig
    ELSE [data |-> <<[type |-> "choropleth",
                      locations |-> Column(wc, "Code"),
                      z |-> Column(wc, "Wins"),
                      hovertext |-> Column(wc, "Country"),
                      coloraxis |-> "coloraxis"]>>,
          layout |-> [title |-> "FIFA World Cup Wins by Country",
                      coloraxis |-> [colorscale |-> "Plasma", colorbar_title |-> "Wins"],
                      geo |-> [showcoastlines |-> TRUE, coastlinecolor |-> "Black"],
                      margin |-> [r |-> 0, t |-> 30, l |-> 0, b |-> 0]]]

px_choropleth(wc) ==
    [data |-> <<[type |-> "choropleth",
                 locations |-> Column(wc, "Code"),
                 z |-> Column(wc, "Wins"),
                 hovertext |-> Column(wc, "Country"),
                 coloraxis |-> "coloraxis"]>>,
     layout |-> [title |-> "FIFA World Cup Wins by Country",
                 coloraxis |-> [colorscale |-> "Plasma", colorbar_title |-> "Wins"],
                 geo |-> [showcoastlines |-> TRUE, coastlinecolor |-> "Black"],
                 margin |-> [r |-> 0, t |-> 30, l |-> 0, b |-> 0]]]

\* go.Choropleth(locations=country_data['Code'], z=country_data['Wins'], ...)
go_Choropleth_AllRows(country_data) ==
    [type |-> "choropleth",
     locations |-> Column(win_counts, "Code"),
     z |-> Column(win_counts, "Wins"),
     colorscale |-> <<<<0, "red">>, <<1, "red">>>>,
     showscale |-> FALSE,
     hoverinfo |-> "none"]

go_Choropleth(country_data) ==
    [type |-> "choropleth",
     locations |-> Column(country_data, "Code"),
     z |-> Column(country_data, "Wins"),
     colorscale |-> <<<<0, "red">>, <<1, "red">>>>,
     showscale |-> FALSE,
     hoverinfo |-> "none"]

add_trace(f, trace) == [f EXCEPT !.data = Append(@, trace)]

\* Lines 126-138: the highlight of the selected country.
Highlight_NoEmptyCheck(f, country) ==
    IF TruthyStr(country)
    THEN add_trace(f, go_Choropleth(Where(win_counts, "Country", country[1])))
    ELSE f

Highlight(f, country) ==
    IF TruthyStr(country)
    THEN LET country_data == Where(win_counts, "Country", country[1])
         IN IF country_data # <<>>
            THEN add_trace(f, go_Choropleth(country_data))
            ELSE f
    ELSE f

\* Lines 140-150: the country panel.
CountryInfo_Placeholder(country) ==
    IF TruthyStr(country)
    THEN LET wins == Where(worldcup_df, "Winner", country[1])
         IN IF wins # <<>>
            THEN Div(<<H3(country[1] \o " World Cup Wins"),
                       P("Total Wins: " \o ToString(Len(wins))),
                       P("Years Won: " \o JoinInts(sorted(Column(wins, "Year"))))>>)
            ELSE Str("")
    ELSE Div(<<P("Select a country")>>)

CountryInfo(country) ==
    IF TruthyStr(country)
    THEN LET wins == Where(worldcup_df, "Winner", country[1])
         IN IF wins # <<>>
            THEN Div(<<H3(country[1] \o " World Cup Wins"),
                       P("Total Wins: " \o ToString(Len(wins))),
                       P("Years Won: " \o JoinInts(sorted(Column(wins, "Year"))))>>)
            ELSE Str("")
    ELSE Str("")

\* Lines 152-162: the year panel; .values[0] is the first matching row.
YearInfo_Swapped(year) ==
    IF TruthyInt(year)
    THEN LET final == Where(worldcup_df, "Year", year[1])
         IN IF final # <<>>
            THEN Div(<<H3(ToString(year[1]) \o " World Cup Final"),
                       P("Winner: " \o final[1].Runner_up),
                       P("Runner-up: " \o final[1].Winner),
                       P("Score: " \o final[1].Score)>>)
            ELSE Str("")
    ELSE Str("")

YearInfo(year) ==
    IF TruthyInt(year)
    THEN LET final == Where(worldcup_df, "Year", year[1])
         IN IF final # <<>>
            THEN Div(<<H3(ToString(year[1]) \o " World Cup Final"),
                       P("Winner: " \o final[1].Winner),
                       P("Runner-up: " \o final[1].Runner_up),
                       P("Score: " \o final[1].Score)>>)
            ELSE Str("")
    ELSE Str("")

\* return fig, country_output, year_output
update_dashboard(country, year) ==
    [fig |-> Highlight(px_choropleth(win_counts), country),
     country_output |-> CountryInfo(country),
     year_output |-> YearInfo(year)]

-----------------------------------------------------------------------------
(* Actions.                                                                *)

NoFigure == [data |-> <<>>, layout |-> [title |-> ""]]

InitWith(I) ==
    /\ pc = "create_dataset"
    /\ \E in \in I : data = in[1] /\ country_codes = in[2]
    /\ worldcup_df = <<>>
    /\ win_counts = <<>>
    /\ selected_country = None
    /\ selected_year = None
    /\ fig = NoFigure
    /\ country_output = Str("")
    /\ year_output = Str("")
    /\ lastEvent = "none"

Init == InitWith(Inputs)

InitDuplicateYear == InitWith(InputsDuplicateYear)

\* worldcup_df = create_worldcup_dataset()
CreateDataset ==
    /\ pc = "create_dataset"
    /\ worldcup_df' = create_worldcup_dataset(data)
    /\ pc' = "add_codes"
    /\ UNCHANGED <<data, country_codes, win_counts, selected_country, selected_year,
                   fig, country_output, year_output, lastEvent>>

\* worldcup_df['Winner_Code'] = ...; worldcup_df['Runner-up_Code'] = ...
AddCodes ==
    /\ pc = "add_codes"
    /\ worldcup_df' = AddCodeColumns(worldcup_df, country_codes)
    /\ pc' = "win_counts"
    /\ UNCHANGED <<data, country_codes, win_counts, selected_country, selected_year,
                   fig, country_output, year_output, lastEvent>>

\* win_counts = ...value_counts().reset_index(); win_counts['Code'] = ...
CalcWinCounts ==
    /\ pc = "win_counts"
    /\ \E wc \in value_counts(worldcup_df, "Winner", Unique(worldcup_df, "Winner")) :
          win_counts' = AddCode(wc, country_codes)
    /\ pc' = "page_load"
    /\ UNCHANGED <<data, country_codes, worldcup_df, selected_country, selected_year,
                   fig, country_output, year_output, lastEvent>>

\* One invocation of the callback with the current values of both inputs.
Callback(country, year, event) ==
    /\ selected_country' = country
    /\ selected_year' = year
    /\ LET out == update_dashboard(country, year)
       IN /\ fig' = out.fig
          /\ country_output' = out.country_output
          /\ year_output' = out.year_output
    /\ lastEvent' = event
    /\ UNCHANGED <<data, country_codes, worldcup_df, win_counts>>

\* Dash fires every callback once when the page loads; nothing is selected.
PageLoad ==
    /\ pc = "page_load"
    /\ pc' = "serving"
    /\ Callback(None, None, "load")

SelectCountry ==
    /\ pc = "serving"
    /\ \E c \in CountryOptions \cup OutOfDomainCountries :
          /\ Some(c) # selected_country
          /\ Callback(Some(c), selected_year, "select_country")
    /\ UNCHANGED pc

ClearCountry ==
    /\ pc = "serving"
    /\ selected_country # None
    /\ Callback(None, selected_year, "clear_country")
    /\ UNCHANGED pc

SelectYear ==
    /\ pc = "serving"
    /\ \E y \in YearOptions \cup OutOfDomainYears :
          /\ Some(y) # selected_year
          /\ Callback(selected_country, Some(y), "select_year")
    /\ UNCHANGED pc

ClearYear ==
    /\ pc = "serving"
    /\ selected_year # None
    /\ Callback(selected_country, None, "clear_year")
    /\ UNCHANGED pc

Next ==
    \/ CreateDataset
    \/ AddCodes
    \/ CalcWinCounts
    \/ PageLoad
    \/ SelectCountry
    \/ ClearCountry
    \/ SelectYear
    \/ ClearYear

Spec == Init /\ [][Next]_vars

SpecDuplicateYear == InitDuplicateYear /\ [][Next]_vars

-----------------------------------------------------------------------------
(* Properties.                                                             *)

Serving == pc = "serving"

WinCountsBuilt == pc \in {"page_load", "serving"}

Range(s) == {s[i] : i \in DOMAIN s}

\* The years of the rows won by c, and a set of ints in ascending order.
WinYearsOf(c) == {worldcup_df[i].Year : i \in {j \in DOMAIN worldcup_df : worldcup_df[j].Winner = c}}

RECURSIVE Ascending(_)
Ascending(S) ==
    IF S = {} THEN <<>>
    ELSE LET m == CHOOSE x \in S : \A y \in S : x <= y
         IN <<m>> \o Ascending(S \ {m})

StrictlyAscending(s) == \A i, j \in DOMAIN s : i < j => s[i] < s[j]

RECURSIVE SumWins(_)
SumWins(wc) == IF wc = <<>> THEN 0 ELSE Head(wc).Wins + SumWins(Tail(wc))

\* The layer every figure starts with: each row of win_counts, in order.
IsBaseLayer(trace) ==
    /\ trace.type = "choropleth"
    /\ trace.coloraxis = "coloraxis"
    /\ Len(trace.locations) = Len(win_counts)
    /\ Len(trace.z) = Len(win_counts)
    /\ Len(trace.hovertext) = Len(win_counts)
    /\ \A i \in DOMAIN win_counts :
          /\ trace.locations[i] = win_counts[i].Code
          /\ trace.z[i] = win_counts[i].Wins
          /\ trace.hovertext[i] = win_counts[i].Country

\* C1: whenever the selected country is the winner of at least one row,
\* whatever the year selector holds, the country panel is not empty, its
\* "Total Wins" is the Wins of that country's row of win_counts, and its
\* "Years Won" lists exactly the years of the rows it won, strictly
\* ascending, as many as its wins (Brazil in the shipped table: 5 wins,
\* 1958, 1962, 1970, 1994, 2002).
C1_CountryPanel ==
    Serving =>
      \A c \in Unique(worldcup_df, "Winner") :
        selected_country = Some(c) =>
          LET ys == Ascending(WinYearsOf(c))
          IN /\ \E i \in DOMAIN win_counts :
                   /\ win_counts[i].Country = c
                   /\ Len(ys) = win_counts[i].Wins
                   /\ country_output.type = "Div"
                   /\ Len(country_output.children) = 3
                   /\ country_output.children[2] =
                          P("Total Wins: " \o ToString(win_counts[i].Wins))
             /\ StrictlyAscending(ys)
             /\ Range(ys) = WinYearsOf(c)
             /\ country_output.children[3] = P("Years Won: " \o JoinInts(ys))
             /\ (data = ShippedData /\ c = "Brazil") =>
                   /\ country_output.children[2] = P("Total Wins: 5")
                   /\ country_output.children[3] =
                          P("Years Won: 1958, 1962, 1970, 1994, 2002")

\* A country is selected whose wins were entered out of year order, with a
\* year selected as well.
C1_Witness ==
    /\ Serving
    /\ selected_country # None
    /\ selected_year # None
    /\ country_output.type = "Div"
    /\ \E i, j \in DOMAIN worldcup_df :
          /\ i < j
          /\ worldcup_df[i].Winner = selected_country[1]
          /\ worldcup_df[j].Winner = selected_country[1]
          /\ worldcup_df[i].Year > worldcup_df[j].Year

\* C2: whenever the selected year is a year of the table, whatever the
\* country selector holds, the year panel is not empty and shows the
\* winner, the runner-up and the score of the row of that year, as they are
\* after normalisation (2022 in the shipped table: Argentina, France,
\* "3-3 (a.e.t.) (4-2 p.)").
C2_YearPanel ==
    Serving =>
      \A i \in DOMAIN worldcup_df :
        selected_year = Some(worldcup_df[i].Year) =>
          /\ year_output =
               Div(<<H3(ToString(worldcup_df[i].Year) \o " World Cup Final"),
                     P("Winner: " \o worldcup_df[i].Winner),
                     P("Runner-up: " \o worldcup_df[i].Runner_up),
                     P("Score: " \o worldcup_df[i].Score)>>)
          /\ worldcup_df[i].Winner = ReplaceCell(data[i].Winner)
          /\ worldcup_df[i].Runner_up = ReplaceCell(data[i].Runner_up)
          /\ worldcup_df[i].Score = data[i].Score
          /\ (data = ShippedData /\ worldcup_df[i].Year = 2022) =>
               year_output.children =
                 <<H3("2022 World Cup Final"), P("Winner: Argentina"),
                   P("Runner-up: France"), P("Score: 3-3 (a.e.t.) (4-2 p.)")>>

C2_Witness ==
    /\ Serving
    /\ data = ShippedData
    /\ selected_year = Some(2022)
    /\ selected_country = Some("Brazil")
    /\ year_output.type = "Div"

\* C3: when the selected country has a row in win_counts but no code in
\* country_codes, the figure holds the base layer alone and the country
\* panel is not empty.
C3_NoOverlayWithoutCode ==
    (/\ Serving
     /\ selected_country # None
     /\ \E i \in DOMAIN win_counts :
           /\ win_counts[i].Country = selected_country[1]
           /\ selected_country[1] \notin DOMAIN country_codes)
    => /\ Len(fig.data) = 1
       /\ IsBaseLayer(fig.data[1])
       /\ country_output.type = "Div"

\* C4: after any sequence of selector changes the three outputs are those
\* of a fresh render of the current selection, and no callback changes
\* worldcup_df, country_codes or win_counts.
C4_FreshRender ==
    /\ [](Serving =>
            /\ fig = update_dashboard(selected_country, selected_year).fig
            /\ country_output =
                 update_dashboard(selected_country, selected_year).country_output
            /\ year_output =
                 update_dashboard(selected_country, selected_year).year_output)
    /\ [][Serving => UNCHANGED <<worldcup_df, country_codes, win_counts>>]_vars

\* A year was set and cleared again while a winner stays selected.
C4_Witness ==
    /\ Serving
    /\ lastEvent = "clear_year"
    /\ selected_country # None
    /\ Len(fig.data) = 2

\* C5: with neither a country nor a year selected the figure holds the base
\* layer alone and both panels are empty.
C5_NothingSelected ==
    (Serving /\ selected_country = None /\ selected_year = None) =>
      /\ Len(fig.data) = 1
      /\ IsBaseLayer(fig.data[1])
      /\ country_output = Str("")
      /\ year_output = Str("")

\* Both selectors are absent because the last one set was cleared.
C5_Witness ==
    /\ Serving
    /\ selected_country = None
    /\ selected_year = None
    /\ lastEvent \in {"clear_country", "clear_year"}
    /\ Len(fig.data) = 1

\* C6: no table with two rows of the same year gets past start-up: the
\* table the callback reads has one row per distinct year.
C6_OneRowPerYear ==
    Serving =>
      \A i, j \in DOMAIN worldcup_df :
        worldcup_df[i].Year = worldcup_df[j].Year => i = j

\* C7: win_counts has one row per distinct winner, whose Wins is the number
\* of rows with that winner, and the Wins add up to the number of rows (22
\* for the shipped table).
C7_WinCounts ==
    WinCountsBuilt =>
      /\ SumWins(win_counts) = Len(worldcup_df)
      /\ Range(Column(win_counts, "Country")) = Unique(worldcup_df, "Winner")
      /\ Len(win_counts) = Cardinality(Unique(worldcup_df, "Winner"))
      /\ \A i \in DOMAIN win_counts :
            win_counts[i].Wins =
              Cardinality({j \in DOMAIN worldcup_df :
                              worldcup_df[j].Winner = win_counts[i].Country})
      /\ data = ShippedData => SumWins(win_counts) = 22

C7_Witness ==
    /\ WinCountsBuilt
    /\ data = ShippedData
    /\ Len(win_counts) = 8
    /\ \E i \in DOMAIN win_counts : win_counts[i].Wins = 5

\* C8: once the table is built no row has West Germany as winner or as
\* runner-up; each such cell reads Germany and every other cell is as it
\* was entered, so that 1954, 1974, 1990 and 2014 are Germany's wins and
\* the year panel of 1990 reads "Winner: Germany".
C8_WestGermanyMerged ==
    pc # "create_dataset" =>
      /\ Len(worldcup_df) = Len(data)
      /\ \A i \in DOMAIN worldcup_df :
            /\ worldcup_df[i].Winner # "West Germany"
            /\ worldcup_df[i].Runner_up # "West Germany"
            /\ worldcup_df[i].Winner =
                 IF data[i].Winner = "West Germany" THEN "Germany" ELSE data[i].Winner
            /\ worldcup_df[i].Runner_up =
                 IF data[i].Runner_up = "West Germany" THEN "Germany"
                 ELSE data[i].Runner_up
            /\ worldcup_df[i].Year = data[i].Year
            /\ worldcup_df[i].Score = data[i].Score
      /\ data = ShippedData =>
            /\ WinYearsOf("Germany") = {1954, 1974, 1990, 2014}
            /\ (Serving /\ selected_year = Some(1990)) =>
                  year_output.children[2] = P("Winner: Germany")
            /\ WinCountsBuilt =>
                  \E i \in DOMAIN win_counts :
                     win_counts[i].Country = "Germany" /\ win_counts[i].Wins = 4

C8_Witness ==
    /\ Serving
    /\ data = ShippedData
    /\ selected_year = Some(1990)
    /\ year_output.type = "Div"

\* C9: a selected country that won no row gives an empty country panel and
\* no overlay, a selected year of no row gives an empty year panel, and in
\* both cases the rest of the output is what it is with that selector
\* absent.
C9_LookupMiss ==
    Serving =>
      /\ (selected_country # None
            /\ selected_country[1] \notin Unique(worldcup_df, "Winner")) =>
           /\ country_output = Str("")
           /\ Len(fig.data) = 1
           /\ IsBaseLayer(fig.data[1])
           /\ fig = update_dashboard(None, selected_year).fig
           /\ year_output = update_dashboard(None, selected_year).year_output
      /\ (selected_year # None
            /\ selected_year[1] \notin Unique(worldcup_df, "Year")) =>
           /\ year_output = Str("")
           /\ IsBaseLayer(fig.data[1])
           /\ fig = update_dashboard(selected_country, None).fig
           /\ country_output = update_dashboard(selected_country, None).country_output

\* Both selectors miss at once.
C9_Witness ==
    /\ Serving
    /\ selected_country = Some("Croatia")
    /\ selected_year = Some(1942)
    /\ country_output = Str("")
    /\ year_output = Str("")

\* C10: the first trace of every figure is the base layer over all of
\* win_counts, coloured through the one colour axis of the layout; and when
\* the selected country has a row in win_counts and a code, exactly one
\* more trace follows, holding that country's code alone and showing no
\* colour scale.
C10_MapLayers ==
    Serving =>
      /\ Len(fig.data) >= 1
      /\ IsBaseLayer(fig.data[1])
      /\ fig.layout.coloraxis = [colorscale |-> "Plasma", colorbar_title |-> "Wins"]
      /\ \A i \in DOMAIN win_counts :
            (selected_country = Some(win_counts[i].Country)
               /\ win_counts[i].Country \in DOMAIN country_codes) =>
              /\ Len(fig.data) = 2
              /\ fig.data[2].locations = <<country_codes[win_counts[i].Country]>>
              /\ fig.data[2].showscale = FALSE
              /\ "coloraxis" \notin DOMAIN fig.data[2]

\* A winner with a code is selected in a table of several winners.
C10_Witness ==
    /\ Serving
    /\ Len(win_counts) >= 2
    /\ selected_country # None
    /\ selected_country[1] \in DOMAIN country_codes
    /\ \E i \in DOMAIN win_counts : win_counts[i].Country = selected_country[1]
    /\ Len(fig.data) = 2

====
